---- MODULE Spec2Model ----
(***************************************************************************)
(* Model of src/main.py: the webhook handler that provisions a repository, *)
(* pushes three files, enables hosting and notifies an evaluator.          *)
(*                                                                         *)
(* Every outbound HTTP call is one action.  Under Spec the remote side is  *)
(* arbitrary: each call may raise a network exception or return any of the *)
(* listed statuses and bodies.  Under SpecStore the file calls are         *)
(* answered by a content store and push_file is run twice by a driver.     *)
(* Under SpecPair two runs of handle() are interleaved against remote      *)
(* repositories kept by name.                                              *)
(***************************************************************************)
EXTENDS Integers, Sequences, FiniteSets, TLC

VARIABLES
    SECRET,      \* os.getenv("SECRET"): a string or None
    data,        \* the inbound body as parsed by req.json()
    now,         \* int(time.time()) at line 114
    mode,        \* "handler": handle() runs; "driver": push_file is called twice;
                 \* "pair": two runs of handle() are served
    pc,          \* position of the running code
    file,        \* push_file's filename argument
    content,     \* push_file's content argument (bytes)
    getsha,      \* push_file's payload["sha"] once fetched by the GET
    log,         \* outbound calls and sleeps, in order
    lastResp,    \* response of the last gh_request / requests.post
    steps,       \* result of each step of handle()
    sha_html,    \* handle()'s local sha_html
    sha_readme,  \* handle()'s local sha_readme
    payload,     \* handle()'s local payload (line 150)
    attempt,     \* notify_evaluator's loop index i
    response,    \* what handle() returned, or that an exception escaped
    store,       \* the remote content store: path -> bytes or absent
    store0,      \* the content store as it was at the start
    commits,     \* number of commits the store has made
    nominal,     \* every response so far was the remote side's plain success
    world,       \* SpecPair: the remote repositories, by name
    peers,       \* SpecPair: the two runs of handle() and which one is running
    runs         \* driver: results of the push_file calls made so far

vars == <<SECRET, data, now, mode, pc, file, content, getsha, log, lastResp,
          steps, sha_html, sha_readme, payload, attempt, response, store,
          store0, commits, nominal, world, peers, runs>>

(***************************************************************************)
(* Python values                                                           *)
(***************************************************************************)
\* None, for the string-valued request fields and environment variables.
None == "None"

\* A value that is None or a str, for the shas: v is the string's characters.
NoneVal == [t |-> "none", v |-> <<>>]
Str(v) == [t |-> "str", v |-> v]

\* Python truthiness of a None-or-str value: None and "" are falsy.
TruthyVal(x) == x.t = "str" /\ x.v # <<>>

\* `a or b` with the operands' roles lost: always the second.
PyOrSecond(a, b) == b

\* Python's `a or b`.
PyOr(a, b) == IF TruthyVal(a) THEN a ELSE b

\* Python truthiness of a request field.
Truthy(s) == s # None /\ s # ""

(***************************************************************************)
(* Bounds and program constants                                            *)
(***************************************************************************)
\* Longest "errors" list in a 422 body answered to the repository creation.
MaxErrors == 2

\* How many times the driver of SpecStore calls push_file.
MaxRuns == 2

\* time % 10000 at line 114.
Modulus == 10000

GITHUB_USER == "octo"

\* delays at line 90.
delays == <<2, 4, 8, 16>>

Files == <<"index.html", "README.md", "LICENSE">>

(***************************************************************************)
(* Strings as sequences of character codes                                 *)
(***************************************************************************)
\* "already exists" (line 45)
NeedleAlreadyExists == <<97, 108, 114, 101, 97, 100, 121, 32, 101, 120, 105, 115, 116, 115>>

\* "name already exists on this account"
MsgExists == <<110, 97, 109, 101, 32, 97, 108, 114, 101, 97, 100, 121, 32, 101,
               120, 105, 115, 116, 115, 32, 111, 110, 32, 116, 104, 105, 115, 32,
               97, 99, 99, 111, 117, 110, 116>>

\* "Name Already Exists"
MsgExistsUpper == <<78, 97, 109, 101, 32, 65, 108, 114, 101, 97, 100, 121, 32,
                    69, 120, 105, 115, 116, 115>>

\* "name is too long"
MsgOther == <<110, 97, 109, 101, 32, 105, 115, 32, 116, 111, 111, 32, 108, 111, 110, 103>>

\* "already exist"
MsgNearMiss == <<97, 108, 114, 101, 97, 100, 121, 32, 101, 120, 105, 115, 116>>

\* str.lower() on ASCII.
Lower(s) == [i \in 1..Len(s) |-> IF s[i] >= 65 /\ s[i] <= 90 THEN s[i] + 32 ELSE s[i]]

\* Python's `sub in s`.
Contains(sub, s) ==
    \E k \in 0..(Len(s) - Len(sub)) :
        \A j \in 1..Len(sub) : s[k + j] = sub[j]

(***************************************************************************)
(* base64.b64encode (line 57) and the remote side's decoding               *)
(***************************************************************************)
\* The 65th symbol, "=".
Pad == 64

\* The encoding without "=": a short last group filled with zero symbols.
RECURSIVE B64EncodeZeroFill(_)
B64EncodeZeroFill(b) ==
    IF Len(b) = 0 THEN <<>>
    ELSE LET b2 == IF Len(b) >= 2 THEN b[2] ELSE 0
             b3 == IF Len(b) >= 3 THEN b[3] ELSE 0
             n == b[1] * 65536 + b2 * 256 + b3
         IN  <<n \div 262144, (n \div 4096) % 64, (n \div 64) % 64, n % 64>>
             \o (IF Len(b) > 3 THEN B64EncodeZeroFill(SubSeq(b, 4, Len(b))) ELSE <<>>)

RECURSIVE B64Encode(_)
B64Encode(b) ==
    IF Len(b) = 0 THEN <<>>
    ELSE IF Len(b) = 1 THEN
        LET n == b[1] * 65536
        IN  <<n \div 262144, (n \div 4096) % 64, Pad, Pad>>
    ELSE IF Len(b) = 2 THEN
        LET n == b[1] * 65536 + b[2] * 256
        IN  <<n \div 262144, (n \div 4096) % 64, (n \div 64) % 64, Pad>>
    ELSE
        LET n == b[1] * 65536 + b[2] * 256 + b[3]
        IN  <<n \div 262144, (n \div 4096) % 64, (n \div 64) % 64, n % 64>>
            \o B64Encode(SubSeq(b, 4, Len(b)))

RECURSIVE B64Decode(_)
B64Decode(e) ==
    IF Len(e) < 4 THEN <<>>
    ELSE
        LET s3 == IF e[3] = Pad THEN 0 ELSE e[3]
            s4 == IF e[4] = Pad THEN 0 ELSE e[4]
            n  == e[1] * 262144 + e[2] * 4096 + s3 * 64 + s4
            b1 == n \div 65536
            b2 == (n \div 256) % 256
            b3 == n % 256
        IN  IF e[3] = Pad THEN <<b1>>
            ELSE IF e[4] = Pad THEN <<b1, b2>>
            ELSE <<b1, b2, b3>> \o B64Decode(SubSeq(e, 5, Len(e)))

(***************************************************************************)
(* Responses of the remote side                                            *)
(***************************************************************************)
\* A response that never arrived: requests raised a network exception.
Exc == [exc |-> TRUE, st |-> 0]

\* A JSON member that is absent, null, or an object with a "sha" member.
Absent == [k |-> "absent", sha |-> NoneVal]
Null == [k |-> "null", sha |-> NoneVal]
Obj(s) == [k |-> "obj", sha |-> s]

ShaA == Str(<<1>>)
ShaB == Str(<<2>>)

\* One entry of a 422 body's "errors" list: an object whose "message" is a
\* string, null or absent, or an entry that is no object at all.
ErrorEntries ==
    { [obj |-> TRUE, msg |-> Str(m)] :
          m \in {MsgExists, MsgExistsUpper, MsgOther, MsgNearMiss} }
    \cup { [obj |-> TRUE, msg |-> NoneVal],
           [obj |-> TRUE, msg |-> [t |-> "absent", v |-> <<>>]],
           [obj |-> FALSE, msg |-> NoneVal] }

ErrorLists == UNION { [1..n -> ErrorEntries] : n \in 0..MaxErrors }

\* Bodies answered to POST /user/repos: not JSON; JSON but no object; an
\* object whose "errors" is absent, null or a list.
CreateBodies ==
    { [json |-> FALSE, dict |-> FALSE, errors |-> "absent", list |-> <<>>],
      [json |-> TRUE, dict |-> FALSE, errors |-> "absent", list |-> <<>>],
      [json |-> TRUE, dict |-> TRUE, errors |-> "absent", list |-> <<>>],
      [json |-> TRUE, dict |-> TRUE, errors |-> "null", list |-> <<>>] }
    \cup { [json |-> TRUE, dict |-> TRUE, errors |-> "list", list |-> l] :
               l \in ErrorLists }

EmptyCreateBody == [json |-> TRUE, dict |-> TRUE, errors |-> "absent", list |-> <<>>]

CreateResponses ==
    {Exc}
    \cup { [exc |-> FALSE, st |-> s, body |-> EmptyCreateBody] : s \in {200, 201, 500} }
    \cup { [exc |-> FALSE, st |-> 422, body |-> b] : b \in CreateBodies }

\* Bodies answered to a PUT of a file.
PutBody(j, d, c, t) == [json |-> j, dict |-> d, commit |-> c, content |-> t]

EmptyPutBody == PutBody(TRUE, TRUE, Absent, Absent)

PutBodies ==
    { PutBody(FALSE, FALSE, Absent, Absent),
      PutBody(TRUE, FALSE, Absent, Absent),
      EmptyPutBody,
      PutBody(TRUE, TRUE, Obj(ShaA), Obj(ShaB)),
      PutBody(TRUE, TRUE, Obj(ShaB), Obj(ShaA)),
      PutBody(TRUE, TRUE, Absent, Obj(ShaB)),
      PutBody(TRUE, TRUE, Obj(NoneVal), Obj(ShaA)),
      PutBody(TRUE, TRUE, Null, Obj(ShaA)),
      PutBody(TRUE, TRUE, Absent, Null),
      PutBody(TRUE, TRUE, Obj(Str(<<>>)), Absent) }

PutResponses ==
    {Exc}
    \cup { [exc |-> FALSE, st |-> s, body |-> EmptyPutBody] : s \in {409, 422, 500} }
    \cup { [exc |-> FALSE, st |-> s, body |-> b] : s \in {200, 201}, b \in PutBodies }

\* Bodies answered to a GET of a file.
GetBody(j, d, s) == [json |-> j, dict |-> d, sha |-> s]

GetBodies ==
    { GetBody(FALSE, FALSE, Absent),
      GetBody(TRUE, FALSE, Absent),
      GetBody(TRUE, TRUE, Absent),
      GetBody(TRUE, TRUE, Null),
      GetBody(TRUE, TRUE, Obj(Str(<<>>))),
      GetBody(TRUE, TRUE, Obj(ShaA)),
      GetBody(TRUE, TRUE, Obj(ShaB)) }

GetResponses ==
    {Exc}
    \cup { [exc |-> FALSE, st |-> s, body |-> GetBody(TRUE, TRUE, Absent)] : s \in {404, 500} }
    \cup { [exc |-> FALSE, st |-> 200, body |-> b] : b \in GetBodies }

PagesResponses ==
    {Exc} \cup { [exc |-> FALSE, st |-> s] : s \in {200, 201, 204, 409, 500} }

EvalResponses ==
    {Exc} \cup { [exc |-> FALSE, st |-> s] : s \in {199, 200, 299, 300} }

(***************************************************************************)
(* The decisions the code takes on a response                              *)
(***************************************************************************)
\* The outcome of an expression: a value, or an exception raised.
Value(x) == [raised |-> FALSE, val |-> x]
Raises == [raised |-> TRUE, val |-> NoneVal]

\* Line 45 for one entry e: e.get("message", "").lower() contains the needle.
\* An entry that is no object has no get; a null message has no lower.
EntryMatches(e) ==
    IF ~e.obj \/ e.msg.t = "none" THEN Raises
    ELSE IF e.msg.t = "absent" THEN Value(Contains(NeedleAlreadyExists, Lower(<<>>)))
    ELSE Value(Contains(NeedleAlreadyExists, Lower(e.msg.v)))

\* Lines 44-49: the loop over errors inside the try; any exception ends it.
RECURSIVE ScanErrors(_)
ScanErrors(l) ==
    IF l = <<>> THEN FALSE
    ELSE LET m == EntryMatches(Head(l))
         IN  IF m.raised THEN FALSE
             ELSE IF m.val THEN TRUE
             ELSE ScanErrors(Tail(l))

\* Lines 38-51: create_repo's result for a response that arrived.
CreateRepoResult(r) ==
    IF r.st = 201 THEN TRUE
    ELSE IF r.st = 422 THEN
        IF ~r.body.json \/ ~r.body.dict \/ r.body.errors = "null" THEN FALSE
        ELSE ScanErrors(r.body.list)
    ELSE FALSE

\* x.get(name, {}).get("sha") for a member x.
MemberSha(m) ==
    IF m.k = "null" THEN Raises ELSE Value(m.sha)

\* Lines 62-63 and 75-76: r.json(), then the commit sha or the content sha.
ExtractSha(b) ==
    IF ~b.json \/ ~b.dict THEN Raises
    ELSE LET c == MemberSha(b.commit)
         IN  IF c.raised THEN Raises
             ELSE IF TruthyVal(c.val) THEN c
             ELSE MemberSha(b.content)

\* Line 70: get_r.json().get("sha").
GetShaOf(b) ==
    IF ~b.json \/ ~b.dict THEN Raises ELSE Value(b.sha.sha)

\* Line 60 / 74.
PutOk(r) == r.st \in {200, 201}

\* Line 85.
PagesOk(r) == r.st \in {201, 204}

\* Line 95 with the upper bound included.
EvalOkUpTo300(r) == 200 <= r.st /\ r.st <= 300

\* Line 95.
EvalOk(r) == 200 <= r.st /\ r.st < 300

(***************************************************************************)
(* The request and what handle() derives from it                           *)
(***************************************************************************)
\* A key the inbound body does not have.
Missing == "Missing"

\* An inbound body that is a JSON object.
Request(s, t, e, u) ==
    [kind |-> "dict", secret |-> s, task |-> t, email |-> e, evaluation_url |-> u]

\* A start of handle(): the environment's SECRET, the inbound body and the
\* clock.  Every pairing of SECRET with a request's secret; with the secret
\* right, every evaluation_url with three choices of task, email and time;
\* and the bodies that are no JSON object or no JSON at all.
Inputs ==
    { [env |-> v, req |-> Request(s, "demo", None, "http://eval"), time |-> 12345] :
          v \in {None, "s1"}, s \in {None, "s1", "bad"} }
    \cup { [env |-> "s1", req |-> Request("s1", x[1], x[2], u), time |-> x[3]] :
               u \in {None, "", "http://eval"},
               x \in {<<Missing, None, 9999>>, <<"demo", "e@x", 12345>>,
                      <<"demo", None, 10000>>} }
    \cup { [env |-> "s1", time |-> 12345,
            req |-> [kind |-> k, secret |-> None, task |-> Missing, email |-> None,
                     evaluation_url |-> None]] : k \in {"notdict", "invalid"} }

\* Line 113.
TaskId == IF data.task = Missing THEN "demo_task" ELSE data.task

\* Line 114.
RepoName == <<"tds", TaskId, now % Modulus>>

NoRepo == <<"", "", 0>>

\* Line 153.
RepoUrl == <<"https://github.com/", GITHUB_USER, RepoName>>

\* Line 148.
PagesUrl == <<"https://", GITHUB_USER, ".github.io/", RepoName>>

NoUrl == <<"", "", NoRepo>>

\* Lines 119, 129 and 134: the three contents, cut to their first bytes.
HtmlContent == <<10, 32, 32, 32>>
ReadmeContent == <<35, 32>>
LicenseContent == <<77, 73, 84>>

\* Lines 150-156.
NoPayload ==
    [email |-> None, task |-> None, repo |-> NoUrl, pages_url |-> <<"", "", "", NoRepo>>,
     commit |-> NoneVal]

BuildPayload ==
    [email |-> data.email, task |-> TaskId, repo |-> RepoUrl, pages_url |-> PagesUrl,
     commit |-> PyOr(sha_html, sha_readme)]

(***************************************************************************)
(* The log of outbound calls                                               *)
(***************************************************************************)
\* How the remote side answered a file call, as the log keeps it.
Outcome(r) ==
    IF r.exc THEN "exc"
    ELSE IF r.st = 422 THEN "422"
    ELSE IF r.st >= 200 /\ r.st < 300 THEN "2xx"
    ELSE "other"

\* The "sha" member of the body answered to a GET, None when it has none.
ShaSent(r) ==
    IF r.exc \/ r.st # 200 THEN NoneVal
    ELSE IF r.body.json /\ r.body.dict THEN r.body.sha.sha
    ELSE NoneVal

\* One entry of the log.  res and got are filled for the file calls only.
Call(op, repo, path, sha, enc, body, delay) ==
    [op |-> op, repo |-> repo, path |-> path, sha |-> sha, enc |-> enc,
     body |-> body, delay |-> delay, res |-> "", got |-> NoneVal]

Answered(c, r) == [c EXCEPT !.res = Outcome(r)]
AnsweredGet(c, r) == [c EXCEPT !.res = Outcome(r), !.got = ShaSent(r)]

\* Lines 30-37.
CreateCall == Call("POST_repos", RepoName, "", NoneVal, <<>>, NoPayload, 0)

\* The PUT without the sha, as a retry would wrongly send it.
PutCallNoSha(sha) == Call("PUT", RepoName, file, NoneVal, B64Encode(content), NoPayload, 0)

\* Lines 56-59 and 72-73: the PUT carries the encoded content and, on the
\* retry, the sha.
PutCall(sha) == Call("PUT", RepoName, file, sha, B64Encode(content), NoPayload, 0)

\* Line 68.
GetCall == Call("GET", RepoName, file, NoneVal, <<>>, NoPayload, 0)

\* Lines 82-84.
PagesCall == Call("POST_pages", RepoName, "", NoneVal, <<>>, NoPayload, 0)

\* Line 93.
EvalCall == Call("POST_eval", NoRepo, data.evaluation_url, NoneVal, <<>>, payload, 0)

\* Line 101.
SleepCall(d) == Call("sleep", NoRepo, "", NoneVal, <<>>, NoPayload, d)

(***************************************************************************)
(* What handle() returns                                                   *)
(***************************************************************************)
NoResponse ==
    [status |-> "none", reason |-> "", repo |-> NoUrl,
     pages_url |-> <<"", "", "", NoRepo>>, commit |-> NoneVal]

ErrorResponse(reason) == [NoResponse EXCEPT !.status = "error", !.reason = reason]

\* An exception left handle(): there is no returned value.
RaisedResponse == [NoResponse EXCEPT !.status = "raised"]

\* A response assembled from the handler's locals instead of the payload.
SuccessResponseOwnCommit(p) ==
    [status |-> "success", reason |-> "", repo |-> p.repo, pages_url |-> PagesUrl,
     commit |-> sha_html]

\* Lines 162-167.
SuccessResponse(p) ==
    [status |-> "success", reason |-> "", repo |-> p.repo, pages_url |-> PagesUrl,
     commit |-> p.commit]

NoSteps ==
    [secret |-> "-", create |-> "-", html |-> "-", readme |-> "-", license |-> "-",
     pages |-> "-", notify |-> "-"]

StepOfFile(f) ==
    CASE f = "index.html" -> "html"
      [] f = "README.md" -> "readme"
      [] OTHER -> "license"

(***************************************************************************)
(* The content store behind the file calls (SpecStore)                     *)
(***************************************************************************)
Paths == {Files[i] : i \in 1..Len(Files)}

NoFile == [present |-> FALSE, bytes |-> <<>>]
StoredFile(b) == [present |-> TRUE, bytes |-> b]

EmptyStore == [p \in Paths |-> NoFile]

\* The sha the store gives a file's content, and the one it gives a commit.
BlobSha(b) == Str(<<0>> \o b)
CommitSha(n) == Str(<<99, n>>)

\* A PUT without sha creates an absent file and is rejected with 422 on an
\* existing one; a PUT with the file's current sha replaces it.
StoreAccepts(c) ==
    IF store[c.path].present THEN c.sha = BlobSha(store[c.path].bytes)
    ELSE c.sha = NoneVal

StorePutResponse(c) ==
    IF StoreAccepts(c) THEN
        [exc |-> FALSE, st |-> IF store[c.path].present THEN 200 ELSE 201,
         body |-> PutBody(TRUE, TRUE, Obj(CommitSha(commits + 1)),
                          Obj(BlobSha(B64Decode(c.enc))))]
    ELSE [exc |-> FALSE, st |-> IF c.sha = NoneVal THEN 422 ELSE 409,
          body |-> EmptyPutBody]

StoreAfterPut(c) ==
    IF StoreAccepts(c)
    THEN [store EXCEPT ![c.path] = StoredFile(B64Decode(c.enc))]
    ELSE store

StoreGetResponse(c) ==
    IF store[c.path].present
    THEN [exc |-> FALSE, st |-> 200,
          body |-> GetBody(TRUE, TRUE, Obj(BlobSha(store[c.path].bytes)))]
    ELSE [exc |-> FALSE, st |-> 404, body |-> GetBody(TRUE, TRUE, Absent)]

\* What may answer the PUT or GET c: anything under Spec, the store under
\* SpecStore.
(***************************************************************************)
(* The remote side of SpecPair: repositories by name, and the evaluator    *)
(***************************************************************************)
\* No repository yet.
EmptyWorld == <<>>

\* Outside SpecPair there is one run only.
NoPeers ==
    [phase |-> "none", active |-> 0, evalUp |-> FALSE, init |-> <<>>, ctx |-> <<>>,
     refs |-> <<>>]

RepoExists(n) == n \in DOMAIN world

\* A repository as POST /user/repos leaves it with auto_init and a license
\* template (lines 34-35): a README.md and a LICENSE are there already.
NewRepo(run) ==
    [files |-> [p \in Paths |-> IF p = "index.html" THEN NoFile
                                ELSE IF p = "README.md" THEN StoredFile(<<35>>)
                                ELSE StoredFile(<<77>>)],
     commits |-> 1,
     pages |-> FALSE,
     writers |-> {run},
     readers |-> {}]

\* The name is taken: 422 with the "already exists" message.
WorldCreateResponse(c) ==
    IF RepoExists(c.repo)
    THEN [exc |-> FALSE, st |-> 422,
          body |-> [json |-> TRUE, dict |-> TRUE, errors |-> "list",
                    list |-> <<[obj |-> TRUE, msg |-> Str(MsgExists)]>>]]
    ELSE [exc |-> FALSE, st |-> 201, body |-> EmptyCreateBody]

WorldAccepts(c) ==
    /\ RepoExists(c.repo)
    /\ LET f == world[c.repo].files[c.path]
       IN  IF f.present THEN c.sha = BlobSha(f.bytes) ELSE c.sha = NoneVal

WorldPutResponse(c) ==
    IF ~RepoExists(c.repo)
    THEN [exc |-> FALSE, st |-> 404, body |-> EmptyPutBody]
    ELSE IF WorldAccepts(c) THEN
        [exc |-> FALSE, st |-> IF world[c.repo].files[c.path].present THEN 200 ELSE 201,
         body |-> PutBody(TRUE, TRUE, Obj(CommitSha(world[c.repo].commits + 1)),
                          Obj(BlobSha(B64Decode(c.enc))))]
    ELSE [exc |-> FALSE, st |-> IF c.sha = NoneVal THEN 422 ELSE 409,
          body |-> EmptyPutBody]

WorldGetResponse(c) ==
    IF RepoExists(c.repo) /\ world[c.repo].files[c.path].present
    THEN [exc |-> FALSE, st |-> 200,
          body |-> GetBody(TRUE, TRUE, Obj(BlobSha(world[c.repo].files[c.path].bytes)))]
    ELSE [exc |-> FALSE, st |-> 404, body |-> GetBody(TRUE, TRUE, Absent)]

\* Hosting is enabled once; a second request for it is a conflict.
WorldPagesResponse(c) ==
    IF ~RepoExists(c.repo) THEN [exc |-> FALSE, st |-> 404]
    ELSE IF world[c.repo].pages THEN [exc |-> FALSE, st |-> 409]
    ELSE [exc |-> FALSE, st |-> 201]

\* The evaluator is reachable for the whole run or for none of it.
WorldEvalResponse(c) ==
    IF peers.evalUp THEN [exc |-> FALSE, st |-> 200] ELSE Exc

\* What may answer a call c: anything under Spec, the content store under
\* SpecStore, the repositories and the evaluator under SpecPair.
CreateAnswers(c) ==
    IF mode = "pair" THEN {WorldCreateResponse(c)} ELSE CreateResponses

PutAnswers(c) ==
    IF mode = "driver" THEN {StorePutResponse(c)}
    ELSE IF mode = "pair" THEN {WorldPutResponse(c)}
    ELSE PutResponses

GetAnswers(c) ==
    IF mode = "driver" THEN {StoreGetResponse(c)}
    ELSE IF mode = "pair" THEN {WorldGetResponse(c)}
    ELSE GetResponses

PagesAnswers(c) ==
    IF mode = "pair" THEN {WorldPagesResponse(c)} ELSE PagesResponses

EvalAnswers(c) ==
    IF mode = "pair" THEN {WorldEvalResponse(c)} ELSE EvalResponses

\* The repositories after the call c of the running handler.  A call that
\* is answered from a repository's state reads it; one that changes it
\* writes it.
WorldAfter(c) ==
    IF ~RepoExists(c.repo) THEN
        IF c.op = "POST_repos" THEN world @@ (c.repo :> NewRepo(peers.active))
        ELSE world
    ELSE IF c.op = "PUT" /\ WorldAccepts(c) THEN
        [world EXCEPT ![c.repo].files[c.path] = StoredFile(B64Decode(c.enc)),
                      ![c.repo].commits = @ + 1,
                      ![c.repo].readers = @ \cup {peers.active},
                      ![c.repo].writers = @ \cup {peers.active}]
    ELSE IF c.op = "POST_pages" /\ ~world[c.repo].pages THEN
        [world EXCEPT ![c.repo].pages = TRUE,
                      ![c.repo].readers = @ \cup {peers.active},
                      ![c.repo].writers = @ \cup {peers.active}]
    ELSE [world EXCEPT ![c.repo].readers = @ \cup {peers.active}]

WorldStep(c) == world' = IF mode = "pair" THEN WorldAfter(c) ELSE world

\* The store after the PUT c.
StoreStep(c) ==
    /\ store' = IF mode = "driver" THEN StoreAfterPut(c) ELSE store
    /\ commits' = IF mode = "driver" /\ StoreAccepts(c) THEN commits + 1 ELSE commits
    /\ WorldStep(c)

\* The remote side's plain success for each call: the repository created,
\* the file written and its commit sha returned, hosting enabled, the
\* evaluator's 2xx.
NominalCreate(r) == ~r.exc /\ r.st = 201
NominalPut(r) ==
    /\ ~r.exc
    /\ r.st \in {200, 201}
    /\ r.body.json /\ r.body.dict
    /\ r.body.commit.k = "obj" /\ TruthyVal(r.body.commit.sha)
    /\ r.body.content.k = "obj" /\ TruthyVal(r.body.content.sha)
NominalPages(r) == ~r.exc /\ r.st \in {201, 204}
NominalEval(r) == ~r.exc /\ r.st >= 200 /\ r.st < 300

(***************************************************************************)
(* handle(): how a run ends                                                *)
(***************************************************************************)
\* A return statement of handle().
Return(r) ==
    /\ pc' = "done"
    /\ response' = r

\* An exception leaves handle().
Escape == Return(RaisedResponse)

\* Lines 162-167.
Finish(p) == Return(SuccessResponse(p))

(***************************************************************************)
(* push_file returns to its caller                                         *)
(***************************************************************************)
\* The index.html push with the check of line 126 left out.
AfterHtmlUngated(ok, sha) ==
    /\ sha_html' = sha
    /\ pc' = "put1"
    /\ file' = "README.md"
    /\ content' = ReadmeContent
    /\ UNCHANGED <<sha_readme, response>>

\* Lines 125-130: handle() takes the index.html push's (ok, sha_html).
AfterHtml(ok, sha) ==
    /\ sha_html' = sha
    /\ UNCHANGED sha_readme
    /\ IF ok THEN /\ pc' = "put1"
                  /\ file' = "README.md"
                  /\ content' = ReadmeContent
                  /\ UNCHANGED response
       ELSE /\ Return(ErrorResponse("Failed to push index.html"))
            /\ UNCHANGED <<file, content>>

\* Lines 130-145: handle() takes the README.md push's (ok, sha_readme).
AfterReadme(ok, sha) ==
    /\ sha_readme' = sha
    /\ UNCHANGED sha_html
    /\ IF ok THEN /\ pc' = "put1"
                  /\ file' = "LICENSE"
                  /\ content' = LicenseContent
                  /\ UNCHANGED response
       ELSE /\ Return(ErrorResponse("Failed to push README.md"))
            /\ UNCHANGED <<file, content>>

\* Lines 145-147: the LICENSE push's result is dropped.
AfterLicense(ok, sha) ==
    /\ pc' = "pages"
    /\ UNCHANGED <<sha_html, sha_readme, file, content, response>>

HandlerAfterPush(ok, sha) ==
    /\ steps' = [steps EXCEPT ![StepOfFile(file)] = IF ok THEN "ok" ELSE "fail"]
    /\ UNCHANGED <<payload, attempt, runs>>
    /\ IF file = "index.html" THEN AfterHtml(ok, sha)
       ELSE IF file = "README.md" THEN AfterReadme(ok, sha)
       ELSE AfterLicense(ok, sha)

\* An exception raised inside push_file leaves handle() too.
HandlerPushRaises ==
    /\ steps' = [steps EXCEPT ![StepOfFile(file)] = "raised"]
    /\ Escape
    /\ UNCHANGED <<payload, attempt, runs, sha_html, sha_readme, file, content>>

\* The driver of SpecStore calls push_file MaxRuns times with the same
\* arguments.
DriverAfterPush(ok, raised, sha) ==
    /\ runs' = Append(runs, [ok |-> ok, raised |-> raised, sha |-> sha,
                             stored |-> store'[file], calls |-> Len(log')])
    /\ pc' = IF Len(runs) + 1 < MaxRuns /\ ~raised THEN "put1" ELSE "done"
    /\ UNCHANGED <<steps, payload, attempt, sha_html, sha_readme, file, content,
                   response>>

\* push_file returns (ok, sha).
PushReturn(ok, sha) ==
    /\ getsha' = NoneVal
    /\ IF mode = "driver" THEN DriverAfterPush(ok, FALSE, sha)
       ELSE HandlerAfterPush(ok, sha)

\* push_file raises.
PushRaises ==
    /\ getsha' = NoneVal
    /\ IF mode = "driver" THEN DriverAfterPush(FALSE, TRUE, NoneVal)
       ELSE HandlerPushRaises

(***************************************************************************)
(* handle() after the hosting call and after the notification              *)
(***************************************************************************)
\* The hosting result checked like the required steps' results.
AfterPagesGated(ok) ==
    /\ payload' = BuildPayload
    /\ IF ~ok THEN Return(ErrorResponse("Failed to enable pages"))
       ELSE IF Truthy(data.evaluation_url)
       THEN /\ pc' = "notify"
            /\ UNCHANGED response
       ELSE Finish(BuildPayload)

\* Lines 147-167: enable_pages' result is dropped, the payload is built and
\* handle() goes on to the notification or, without evaluation_url, returns.
AfterPages(ok) ==
    /\ payload' = BuildPayload
    /\ IF Truthy(data.evaluation_url)
       THEN /\ pc' = "notify"
            /\ UNCHANGED response
       ELSE Finish(BuildPayload)

\* The notification's result surfaced in the response.
AfterNotifySurfaced(ok) ==
    IF ok THEN Finish(payload)
    ELSE Return(ErrorResponse("Failed to notify evaluator"))

\* Lines 160-167: notify_evaluator's result is dropped.
AfterNotify(ok) == Finish(payload)

(***************************************************************************)
(* Actions                                                                 *)
(***************************************************************************)
\* Lines 108-114: the body is read and the secret compared.
Receive ==
    /\ mode \in {"handler", "pair"}
    /\ pc = "start"
    /\ UNCHANGED <<SECRET, data, now, mode, file, content, getsha, log, lastResp,
                   sha_html, sha_readme, payload, attempt, store, store0, commits,
                   nominal, world, peers, runs>>
    /\ IF data.kind # "dict" THEN
           \* req.json() raises, or the body has no get()
           /\ steps' = [steps EXCEPT !.secret = "raised"]
           /\ Escape
       ELSE IF data.secret # SECRET THEN
           /\ steps' = [steps EXCEPT !.secret = "fail"]
           /\ Return(ErrorResponse("Invalid secret"))
       ELSE
           /\ steps' = [steps EXCEPT !.secret = "ok"]
           /\ pc' = "create"
           /\ UNCHANGED response

\* Lines 116-117 with create_repo (lines 29-51).
CreateRepo ==
    /\ pc = "create"
    /\ \E r \in CreateAnswers(CreateCall) :
        /\ log' = Append(log, CreateCall)
        /\ lastResp' = r
        /\ nominal' = (nominal /\ NominalCreate(r))
        /\ WorldStep(CreateCall)
        /\ UNCHANGED <<SECRET, data, now, mode, getsha, sha_html, sha_readme, payload,
                       attempt, store, store0, commits, peers, runs>>
        /\ IF r.exc THEN
               /\ steps' = [steps EXCEPT !.create = "raised"]
               /\ Escape
               /\ UNCHANGED <<file, content>>
           ELSE IF CreateRepoResult(r) THEN
               /\ steps' = [steps EXCEPT !.create = "ok"]
               /\ pc' = "put1"
               /\ file' = "index.html"
               /\ content' = HtmlContent
               /\ UNCHANGED response
           ELSE
               /\ steps' = [steps EXCEPT !.create = "fail"]
               /\ Return(ErrorResponse("Failed to create repo"))
               /\ UNCHANGED <<file, content>>

\* Lines 56-67 and 78: the first PUT of push_file.
PutFirst ==
    /\ pc = "put1"
    /\ \E r \in PutAnswers(PutCall(NoneVal)) :
        /\ log' = Append(log, Answered(PutCall(NoneVal), r))
        /\ lastResp' = r
        /\ nominal' = (nominal /\ NominalPut(r))
        /\ StoreStep(PutCall(NoneVal))
        /\ UNCHANGED <<SECRET, data, now, mode, store0, peers>>
        /\ IF r.exc THEN PushRaises
           ELSE IF PutOk(r) THEN
               LET x == ExtractSha(r.body)
               IN  PushReturn(TRUE, IF x.raised THEN NoneVal ELSE x.val)
           ELSE IF r.st = 422 THEN
               /\ pc' = "get"
               /\ UNCHANGED <<getsha, steps, payload, attempt, runs, sha_html,
                              sha_readme, file, content, response>>
           ELSE PushReturn(FALSE, NoneVal)

\* Lines 68-72 and 78: the GET that follows a 422.
GetSha ==
    /\ pc = "get"
    /\ \E r \in GetAnswers(GetCall) :
        /\ log' = Append(log, AnsweredGet(GetCall, r))
        /\ lastResp' = r
        /\ WorldStep(GetCall)
        /\ UNCHANGED <<SECRET, data, now, mode, store, store0, commits, nominal,
                       peers>>
        /\ IF r.exc THEN PushRaises
           ELSE IF r.st = 200 THEN
               LET x == GetShaOf(r.body)
               IN  IF x.raised THEN PushRaises
                   ELSE IF TruthyVal(x.val) THEN
                       /\ getsha' = x.val
                       /\ pc' = "put2"
                       /\ UNCHANGED <<steps, payload, attempt, runs, sha_html,
                                      sha_readme, file, content, response>>
                   ELSE PushReturn(FALSE, NoneVal)
           ELSE PushReturn(FALSE, NoneVal)

\* Lines 73-78: the retried PUT, with the fetched sha.
PutRetry ==
    /\ pc = "put2"
    /\ \E r \in PutAnswers(PutCall(getsha)) :
        /\ log' = Append(log, Answered(PutCall(getsha), r))
        /\ lastResp' = r
        /\ StoreStep(PutCall(getsha))
        /\ UNCHANGED <<SECRET, data, now, mode, store0, nominal, peers>>
        /\ IF r.exc THEN PushRaises
           ELSE IF PutOk(r) THEN
               LET x == ExtractSha(r.body)
               IN  IF x.raised THEN PushRaises ELSE PushReturn(TRUE, x.val)
           ELSE PushReturn(FALSE, NoneVal)

\* Lines 147-167 with enable_pages (lines 81-85): the hosting call, the
\* payload, and the return when there is no evaluation_url.
EnablePages ==
    /\ pc = "pages"
    /\ \E r \in PagesAnswers(PagesCall) :
        /\ log' = Append(log, PagesCall)
        /\ lastResp' = r
        /\ nominal' = (nominal /\ NominalPages(r))
        /\ WorldStep(PagesCall)
        /\ UNCHANGED <<SECRET, data, now, mode, file, content, getsha, sha_html,
                       sha_readme, attempt, store, store0, commits, peers, runs>>
        /\ IF r.exc THEN
               /\ steps' = [steps EXCEPT !.pages = "raised"]
               /\ Escape
               /\ UNCHANGED payload
           ELSE
               /\ steps' = [steps EXCEPT !.pages = IF PagesOk(r) THEN "ok" ELSE "fail"]
               /\ AfterPages(PagesOk(r))

\* A loop whose wait is skipped once no attempt is left.
FailedAttemptLogNoTrailingWait ==
    IF attempt = Len(delays) THEN Append(log, EvalCall)
    ELSE log \o <<EvalCall, SleepCall(delays[attempt])>>

\* Lines 92-101: an attempt that failed, and the time.sleep(delay) that ends
\* the iteration.
FailedAttemptLog == log \o <<EvalCall, SleepCall(delays[attempt])>>

\* Lines 91-103 and 160-167: one iteration of notify_evaluator's loop, and
\* the return of handle() when the loop ends.
NotifyAttempt ==
    /\ pc = "notify"
    /\ \E r \in EvalAnswers(EvalCall) :
        /\ lastResp' = r
        /\ nominal' = (nominal /\ NominalEval(r))
        /\ UNCHANGED <<SECRET, data, now, mode, file, content, getsha, sha_html,
                       sha_readme, payload, store, store0, commits, world, peers,
                       runs>>
        /\ IF ~r.exc /\ EvalOk(r) THEN
               /\ log' = Append(log, EvalCall)
               /\ steps' = [steps EXCEPT !.notify = "ok"]
               /\ UNCHANGED attempt
               /\ AfterNotify(TRUE)
           ELSE
               /\ log' = FailedAttemptLog
               /\ IF attempt = Len(delays) THEN
                      /\ steps' = [steps EXCEPT !.notify = "fail"]
                      /\ UNCHANGED attempt
                      /\ AfterNotify(FALSE)
                  ELSE
                      /\ attempt' = attempt + 1
                      /\ UNCHANGED <<steps, pc, response>>

(***************************************************************************)
(* Specifications                                                          *)
(***************************************************************************)
Init ==
    /\ \E i \in Inputs :
        /\ SECRET = i.env
        /\ data = i.req
        /\ now = i.time
    /\ mode = "handler"
    /\ pc = "start"
    /\ file = "index.html"
    /\ content = HtmlContent
    /\ getsha = NoneVal
    /\ log = <<>>
    /\ lastResp = Exc
    /\ steps = NoSteps
    /\ sha_html = NoneVal
    /\ sha_readme = NoneVal
    /\ payload = NoPayload
    /\ attempt = 1
    /\ response = NoResponse
    /\ store = EmptyStore
    /\ store0 = EmptyStore
    /\ commits = 0
    /\ nominal = TRUE
    /\ world = EmptyWorld
    /\ peers = NoPeers
    /\ runs = <<>>

Next ==
    \/ Receive
    \/ CreateRepo
    \/ PutFirst
    \/ GetSha
    \/ PutRetry
    \/ EnablePages
    \/ NotifyAttempt

Spec == Init /\ [][Next]_vars

\* Contents push_file is called with under SpecStore.
Contents == {<<>>, <<77>>, <<35, 32>>, <<77, 73, 84>>, <<10, 32, 32, 60>>, <<255, 254>>}

\* Contents a path may hold at the start.
OldContents == {<<>>, <<77>>, <<77, 73, 84>>}

InitStore ==
    /\ SECRET = "s1"
    /\ data = Request("s1", "demo", None, None)
    /\ now = 12345
    /\ mode = "driver"
    /\ pc = "put1"
    /\ file \in Paths
    /\ content \in Contents
    /\ getsha = NoneVal
    /\ log = <<>>
    /\ lastResp = Exc
    /\ steps = NoSteps
    /\ sha_html = NoneVal
    /\ sha_readme = NoneVal
    /\ payload = NoPayload
    /\ attempt = 1
    /\ response = NoResponse
    /\ store \in [Paths -> {NoFile} \cup {StoredFile(b) : b \in OldContents}]
    /\ store0 = store
    /\ commits = 0
    /\ nominal = TRUE
    /\ world = EmptyWorld
    /\ peers = NoPeers
    /\ runs = <<>>

NextStore ==
    \/ PutFirst
    \/ GetSha
    \/ PutRetry

SpecStore == InitStore /\ [][NextStore]_vars

(***************************************************************************)
(* Two runs of handle() served concurrently                                *)
(*                                                                         *)
(* The variables of one run (data, now, pc, ..., response) are those of    *)
(* the run that is executing; the other run's are kept in peers.ctx.       *)
(* SECRET and GITHUB_USER are the module's globals, shared by both and     *)
(* never assigned.  Each run is first executed alone against a fresh       *)
(* remote side (phases "ref1", "ref2"), which gives the calls and the      *)
(* response to compare with; then both are executed interleaved (phase     *)
(* "both"), a switch being possible before every outbound call.            *)
(***************************************************************************)
\* The locals of a run of handle() that has not started.
StartCtx(req, t) ==
    [data |-> req, now |-> t, pc |-> "start", file |-> "index.html",
     content |-> HtmlContent, getsha |-> NoneVal, log |-> <<>>, lastResp |-> Exc,
     steps |-> NoSteps, sha_html |-> NoneVal, sha_readme |-> NoneVal,
     payload |-> NoPayload, attempt |-> 1, response |-> NoResponse, nominal |-> TRUE]

\* The locals of the executing run.
Ctx ==
    [data |-> data, now |-> now, pc |-> pc, file |-> file, content |-> content,
     getsha |-> getsha, log |-> log, lastResp |-> lastResp, steps |-> steps,
     sha_html |-> sha_html, sha_readme |-> sha_readme, payload |-> payload,
     attempt |-> attempt, response |-> response, nominal |-> nominal]

\* Lines 113-114 for the run whose locals are c.
NameOf(c) ==
    <<"tds", IF c.data.task = Missing THEN "demo_task" ELSE c.data.task,
      c.now % Modulus>>

\* The payload as a module-level variable: the executing run finds the one
\* the other run left.
LoadSharedPayload(c) ==
    /\ data' = c.data
    /\ now' = c.now
    /\ pc' = c.pc
    /\ file' = c.file
    /\ content' = c.content
    /\ getsha' = c.getsha
    /\ log' = c.log
    /\ lastResp' = c.lastResp
    /\ steps' = c.steps
    /\ sha_html' = c.sha_html
    /\ sha_readme' = c.sha_readme
    /\ UNCHANGED payload
    /\ attempt' = c.attempt
    /\ response' = c.response
    /\ nominal' = c.nominal

\* The run whose locals are c is the one executing from now on.
Load(c) ==
    /\ data' = c.data
    /\ now' = c.now
    /\ pc' = c.pc
    /\ file' = c.file
    /\ content' = c.content
    /\ getsha' = c.getsha
    /\ log' = c.log
    /\ lastResp' = c.lastResp
    /\ steps' = c.steps
    /\ sha_html' = c.sha_html
    /\ sha_readme' = c.sha_readme
    /\ payload' = c.payload
    /\ attempt' = c.attempt
    /\ response' = c.response
    /\ nominal' = c.nominal

\* The requests of the second run: the first run's task and second, the
\* same task 10000 seconds later, the same task a second later, another
\* task in the same second.
SecondRuns == {<<"demo", 12345>>, <<"demo", 22345>>, <<"demo", 12346>>, <<"other", 12345>>}

PairUrls == {None, "http://eval"}

\* The run executed alone has ended: its calls and response are kept, and
\* the remote side starts afresh for what comes next.
EndReference ==
    /\ mode = "pair"
    /\ peers.phase \in {"ref1", "ref2"}
    /\ pc = "done"
    /\ world' = EmptyWorld
    /\ peers' = [peers EXCEPT !.phase = IF peers.phase = "ref1" THEN "ref2" ELSE "both",
                              !.active = IF peers.phase = "ref1" THEN 2 ELSE 1,
                              !.refs[peers.active] = [log |-> log, response |-> response]]
    /\ Load(peers.init[IF peers.phase = "ref1" THEN 2 ELSE 1])
    /\ UNCHANGED <<SECRET, mode, store, store0, commits, runs>>

\* The other run gets to execute.
Switch ==
    /\ mode = "pair"
    /\ peers.phase = "both"
    /\ LET other == 3 - peers.active
       IN  /\ peers' = [peers EXCEPT !.active = other, !.ctx[peers.active] = Ctx]
           /\ Load(peers.ctx[other])
    /\ UNCHANGED <<SECRET, mode, world, store, store0, commits, runs>>

InitPair ==
    /\ SECRET = "s1"
    /\ mode = "pair"
    /\ \E x \in SecondRuns, u1 \in PairUrls, u2 \in PairUrls, up \in BOOLEAN :
          LET c1 == StartCtx(Request("s1", "demo", None, u1), 12345)
              c2 == StartCtx(Request("s1", x[1], "e@x", u2), x[2])
          IN  /\ peers = [phase |-> "ref1", active |-> 1, evalUp |-> up,
                          init |-> <<c1, c2>>, ctx |-> <<c1, c2>>,
                          refs |-> <<[log |-> <<>>, response |-> NoResponse],
                                    [log |-> <<>>, response |-> NoResponse]>>]
              /\ data = c1.data
              /\ now = c1.now
    /\ pc = "start"
    /\ file = "index.html"
    /\ content = HtmlContent
    /\ getsha = NoneVal
    /\ log = <<>>
    /\ lastResp = Exc
    /\ steps = NoSteps
    /\ sha_html = NoneVal
    /\ sha_readme = NoneVal
    /\ payload = NoPayload
    /\ attempt = 1
    /\ response = NoResponse
    /\ store = EmptyStore
    /\ store0 = EmptyStore
    /\ commits = 0
    /\ nominal = TRUE
    /\ world = EmptyWorld
    /\ runs = <<>>

NextPair ==
    \/ Receive
    \/ CreateRepo
    \/ PutFirst
    \/ GetSha
    \/ PutRetry
    \/ EnablePages
    \/ NotifyAttempt
    \/ EndReference
    \/ Switch

SpecPair == InitPair /\ [][NextPair]_vars

(***************************************************************************)
(* Reading the log                                                         *)
(***************************************************************************)
\* The step of handle() a log entry belongs to, 1..6 in the order of the code.
Rank(e) ==
    CASE e.op = "POST_repos" -> 1
      [] e.op \in {"PUT", "GET"} /\ e.path = "index.html" -> 2
      [] e.op \in {"PUT", "GET"} /\ e.path = "README.md" -> 3
      [] e.op \in {"PUT", "GET"} /\ e.path = "LICENSE" -> 4
      [] e.op = "POST_pages" -> 5
      [] OTHER -> 6

HasRank(n) == \E i \in 1..Len(log) : Rank(log[i]) = n

IsCallOf(e, f) == e.op \in {"PUT", "GET"} /\ e.path = f

\* The calls push_file made for file f.
FileCalls(f) == SelectSeq(log, LAMBDA e : IsCallOf(e, f))

\* push_file has returned or raised for file f.
PushEnded(f) == steps[StepOfFile(f)] # "-"

\* What notify_evaluator did.
NotifyLog == SelectSeq(log, LAMBDA e : e.op \in {"POST_eval", "sleep"})

LastCall == log[Len(log)]

(***************************************************************************)
(* C1                                                                      *)
(***************************************************************************)
SecretMissingOrWrong ==
    data.kind = "dict" /\ (data.secret = None \/ data.secret # SECRET)

\* C1: a request whose secret is missing or is not the configured secret is
\* answered {status: "error", reason: "Invalid secret"} and causes no
\* outbound call, whatever the environment holds, an unset SECRET included.
C1_InvalidSecretRejected ==
    (SecretMissingOrWrong /\ steps.secret # "-")
        => /\ response = ErrorResponse("Invalid secret")
           /\ log = <<>>

(***************************************************************************)
(* C2                                                                      *)
(***************************************************************************)
LogInStepOrder ==
    \A i, j \in 1..Len(log) : i < j => Rank(log[i]) <= Rank(log[j])

\* A step that did not succeed lets no later step call out.
StepsGate ==
    /\ steps.create # "ok" => \A i \in 1..Len(log) : Rank(log[i]) <= 1
    /\ steps.html # "ok" => \A i \in 1..Len(log) : Rank(log[i]) <= 2
    /\ steps.readme # "ok" => \A i \in 1..Len(log) : Rank(log[i]) <= 3

FailureNamesStep ==
    /\ steps.create = "fail" => response = ErrorResponse("Failed to create repo")
    /\ steps.html = "fail" => response = ErrorResponse("Failed to push index.html")
    /\ steps.readme = "fail" => response = ErrorResponse("Failed to push README.md")

\* A run that returns success has made the five provisioning steps' calls.
SuccessMadeEveryStep ==
    response.status = "success" => \A n \in 1..5 : HasRank(n)

\* C2: the outbound calls come in the order create repository, index.html,
\* README.md, LICENSE, hosting, evaluator; a create_repo, index.html push or
\* README.md push that did not succeed lets no later call happen, and when
\* it returned failure the handler returns status "error" naming that step.
C2_StepsInOrderAndGated ==
    /\ LogInStepOrder
    /\ StepsGate
    /\ FailureNamesStep
    /\ SuccessMadeEveryStep

\* The README.md push returned failure after the two steps before it ran.
C2_Witness ==
    /\ pc = "done"
    /\ steps.readme = "fail"
    /\ HasRank(1) /\ HasRank(2) /\ HasRank(3)

(***************************************************************************)
(* C3                                                                      *)
(***************************************************************************)
FirstPutGot422(f) ==
    /\ Len(FileCalls(f)) >= 1
    /\ FileCalls(f)[1].res = "422"

PushFailed(f) ==
    /\ steps[StepOfFile(f)] = "fail"
    /\ f = "index.html" => sha_html = NoneVal
    /\ f = "README.md" => sha_readme = NoneVal

\* C3 as written: whenever the first PUT returns 422 push_file makes exactly
\* one GET and then exactly one retried PUT carrying the fetched sha, and a
\* retried PUT answered neither 200 nor 201 makes it return (False, None).
C3_AlwaysRetriesAfter422 ==
    \A f \in {"index.html", "README.md", "LICENSE"} :
        (PushEnded(f) /\ FirstPutGot422(f)) =>
            LET c == FileCalls(f)
            IN  /\ Len(c) = 3
                /\ c[2].op = "GET"
                /\ c[3].op = "PUT"
                /\ c[3].sha = c[2].got
                /\ c[3].res \in {"422", "other"} => PushFailed(f)

\* C3 (amended): after a 422 on the first PUT push_file makes exactly one
\* GET of the same path; it makes the retried PUT, once and carrying the
\* fetched sha, exactly when that GET returned 200 with a non-empty sha,
\* and otherwise makes no further call; a GET that returned another status
\* or a 200 object without sha, and a retried PUT that returned neither 200
\* nor 201, make push_file return (False, None) with no further call.
C3_OneGetThenRetryIfSha ==
    \A f \in {"index.html", "README.md", "LICENSE"} :
        (PushEnded(f) /\ FirstPutGot422(f)) =>
            LET c == FileCalls(f)
            IN  /\ Len(c) \in {2, 3}
                /\ c[1].op = "PUT" /\ c[1].sha = NoneVal
                /\ c[2].op = "GET"
                /\ Len(c) = 3 <=> (c[2].res = "2xx" /\ TruthyVal(c[2].got))
                /\ Len(c) = 3 =>
                       /\ c[3].op = "PUT"
                       /\ c[3].sha = c[2].got
                       /\ c[3].enc = c[1].enc
                       /\ c[3].res \in {"422", "other"} => PushFailed(f)
                /\ (Len(c) = 2 /\ c[2].res \in {"422", "other"}) => PushFailed(f)
                /\ (Len(c) = 2 /\ steps[StepOfFile(f)] # "raised") => PushFailed(f)

\* A retried PUT carried the fetched sha and was refused.
C3_Witness ==
    /\ PushEnded("README.md")
    /\ Len(FileCalls("README.md")) = 3
    /\ FileCalls("README.md")[3].sha = ShaB
    /\ FileCalls("README.md")[3].res = "other"
    /\ steps.readme = "fail"

(***************************************************************************)
(* C4                                                                      *)
(***************************************************************************)
BackoffSchedule == <<2, 4, 8, 16>>

\* notify_evaluator's log after k failed attempts, each followed by its
\* wait, and then, if last, one more attempt that was not followed by a wait.
NotifyShape(k, last) ==
    /\ Len(NotifyLog) = 2 * k + (IF last THEN 1 ELSE 0)
    /\ \A i \in 1..Len(NotifyLog) :
           IF i % 2 = 1 THEN NotifyLog[i].op = "POST_eval"
           ELSE /\ NotifyLog[i].op = "sleep"
                /\ NotifyLog[i].delay = BackoffSchedule[i \div 2]

EvalIn2xx == ~lastResp.exc /\ lastResp.st \in 200..299

\* C4: when every attempt fails (an exception or a status outside 200..299)
\* notify_evaluator posts exactly 4 times, waits 2, 4, 8 and 16 seconds
\* after the 1st to 4th failure and returns False; the first attempt
\* answered 200..299 makes it return True with no further post or wait.
C4_NotifyFourAttempts ==
    /\ steps.notify = "fail" => (NotifyShape(4, FALSE) /\ ~EvalIn2xx /\ pc = "done")
    /\ steps.notify = "ok" =>
           /\ \E k \in 0..3 : NotifyShape(k, TRUE)
           /\ EvalIn2xx
           /\ pc = "done"
    /\ pc = "notify" =>
           /\ attempt \in 1..4
           /\ NotifyShape(attempt - 1, FALSE)
           /\ attempt > 1 => ~EvalIn2xx
    /\ (NotifyLog # <<>> /\ EvalIn2xx) =>
           /\ steps.notify = "ok"
           /\ LastCall.op = "POST_eval"

\* All four attempts failed.
C4_Witness ==
    /\ steps.notify = "fail"
    /\ Len(NotifyLog) = 8
    /\ LastCall.delay = 16

(***************************************************************************)
(* C5                                                                      *)
(***************************************************************************)
\* The body is an object with an error list in which some entry's message
\* contains "already exists", case-insensitively.
HasAlreadyExistsMessage(b) ==
    /\ b.json /\ b.dict /\ b.errors = "list"
    /\ \E i \in 1..Len(b.list) :
           /\ b.list[i].obj
           /\ b.list[i].msg.t = "str"
           /\ Contains(NeedleAlreadyExists, Lower(b.list[i].msg.v))

CreateAnswered ==
    /\ Len(log) = 1
    /\ LastCall.op = "POST_repos"
    /\ ~lastResp.exc

\* C5: create_repo posts once and returns success exactly when the answer
\* is 201, or 422 with an error list holding an "already exists" message.
C5_CreateRepoSuccessIff ==
    /\ Cardinality({i \in 1..Len(log) : log[i].op = "POST_repos"}) <= 1
    /\ CreateAnswered =>
           /\ steps.create \in {"ok", "fail"}
           /\ steps.create = "ok" <=>
                  \/ lastResp.st = 201
                  \/ lastResp.st = 422 /\ HasAlreadyExistsMessage(lastResp.body)

(***************************************************************************)
(* C6                                                                      *)
(***************************************************************************)
PagesAnsweredNot201Or204 ==
    /\ Len(log) > 0
    /\ LastCall.op = "POST_pages"
    /\ ~lastResp.exc
    /\ lastResp.st \notin {201, 204}

\* C6: once the repository and the two required files are in place, a
\* hosting call answered with a status other than 201 or 204 changes
\* nothing: the handler goes on to the notification when an evaluation_url
\* was given and returns status "success".
C6_HostingFailureIgnored ==
    /\ PagesAnsweredNot201Or204 => steps.pages = "fail"
    /\ steps.pages = "fail" =>
           /\ steps.create = "ok" /\ steps.html = "ok" /\ steps.readme = "ok"
           /\ \/ /\ pc = "notify"
                 /\ Truthy(data.evaluation_url)
              \/ /\ pc = "done"
                 /\ response.status = "success"
                 /\ Truthy(data.evaluation_url) <=> NotifyLog # <<>>

\* Hosting answered 500 and the handler returned success.
C6_Witness ==
    /\ PagesAnsweredNot201Or204
    /\ lastResp.st = 500
    /\ response.status = "success"

(***************************************************************************)
(* C7                                                                      *)
(***************************************************************************)
\* C7: with an evaluation_url, the handler's response is status "success"
\* with the repo, pages_url and commit fixed before the notification,
\* whether notify_evaluator succeeded or failed on all 4 attempts.
C7_ResponseIgnoresNotify ==
    /\ pc = "notify" => payload = BuildPayload
    /\ steps.notify \in {"ok", "fail"} =>
           /\ payload = BuildPayload
           /\ response.status = "success"
           /\ response.repo = payload.repo
           /\ response.pages_url = payload.pages_url
           /\ response.commit = payload.commit

\* The notification failed on all attempts and the handler has returned.
C7_Witness ==
    /\ pc = "done"
    /\ steps.notify = "fail"
    /\ response.status = "success"

(***************************************************************************)
(* C8                                                                      *)
(***************************************************************************)
\* C8: every run of the handler ends by returning a result whose status is
\* "success" or "error", with a reason on error; no exception escapes.
C8_AlwaysStructuredResult ==
    (mode = "handler" /\ pc = "done") =>
        /\ response.status \in {"success", "error"}
        /\ response.status = "error" => response.reason # ""

(***************************************************************************)
(* C9                                                                      *)
(***************************************************************************)
HtmlPutJustSucceeded ==
    /\ Len(log) > 0
    /\ LastCall.op = "PUT"
    /\ LastCall.path = "index.html"
    /\ NominalPut(lastResp)

\* C9: a success response's commit is the sha the index.html push returned
\* if it returned one, otherwise the one the README.md push returned; and
\* when every call got the remote side's plain success it is not null.
C9_CommitIsFirstAvailableSha ==
    /\ HtmlPutJustSucceeded => sha_html = lastResp.body.commit.sha
    /\ response.status = "success" =>
           response.commit = (IF TruthyVal(sha_html) THEN sha_html ELSE sha_readme)
    /\ (response.status = "success" /\ nominal) =>
           /\ response.commit # NoneVal
           /\ TruthyVal(response.commit)

\* The index.html push returned no sha and the README.md push's was used.
C9_Witness ==
    /\ response.status = "success"
    /\ sha_html = NoneVal
    /\ response.commit = ShaB

(***************************************************************************)
(* C10                                                                     *)
(***************************************************************************)
\* Calls made by the n-th run of push_file under SpecStore.
RunCalls(n) == runs[n].calls - (IF n = 1 THEN 0 ELSE runs[n - 1].calls)

\* C10: against a store that answers 422 to a PUT without sha on an
\* existing path, push_file succeeds with one PUT on an absent path and
\* through the GET-then-PUT fallback on an existing one, and every run
\* leaves the store holding the new content: running it again with the same
\* arguments succeeds and leaves what the first run left.
C10_PushFileIdempotent ==
    /\ \A n \in 1..Len(runs) :
           /\ runs[n].ok /\ ~runs[n].raised
           /\ runs[n].stored = StoredFile(content)
           /\ RunCalls(n) = (IF n = 1 /\ ~store0[file].present THEN 1 ELSE 3)
    /\ (mode = "driver" /\ pc = "done") =>
           /\ Len(runs) = MaxRuns
           /\ store[file] = StoredFile(content)
           /\ \A p \in Paths \ {file} : store[p] = store0[p]

\* Both runs are over: the first created the file, the second replaced it.
C10_Witness ==
    /\ mode = "driver"
    /\ pc = "done"
    /\ ~store0[file].present
    /\ Len(content) = 2
    /\ Len(runs) >= 2
    /\ runs[2].ok
    /\ log[3].op = "GET"

(***************************************************************************)
(* C11: concurrent runs with distinct repository names                     *)
(***************************************************************************)
IsPrefix(a, b) == Len(a) <= Len(b) /\ SubSeq(b, 1, Len(a)) = a

\* Both runs are being served, interleaved.
Interleaved == mode = "pair" /\ peers.phase = "both"

DistinctNames == NameOf(peers.init[1]) # NameOf(peers.init[2])

\* The run i as it stands: the executing one, or the one set aside.
RunCtx(i) == IF peers.active = i THEN Ctx ELSE peers.ctx[i]

\* The run i has so far made the calls it made alone, with the same
\* answers, and if it has returned, made all of them and returned the same.
SameAsAlone(i) ==
    LET c == RunCtx(i)
        ref == peers.refs[i]
    IN  /\ IsPrefix(c.log, ref.log)
        /\ c.pc = "done" => c.log = ref.log /\ c.response = ref.response

\* No repository was read or written by both runs.
NoSharedRepository ==
    \A n \in DOMAIN world : Cardinality(world[n].writers \cup world[n].readers) <= 1

\* C11: in every interleaving of two runs of handle() whose repository
\* names differ, each run makes the same outbound calls and returns the same
\* response as it did alone, and no repository written by one run is read
\* or written by the other.
C11_DistinctNamesDoNotInterfere ==
    Interleaved /\ DistinctNames =>
        /\ SameAsAlone(1)
        /\ SameAsAlone(2)
        /\ NoSharedRepository

\* One run has returned its success while the other, started before that,
\* is in the middle of a file push; each has its own repository.
C11_Witness ==
    /\ Interleaved
    /\ DistinctNames
    /\ pc = "done"
    /\ response.status = "success"
    /\ peers.ctx[3 - peers.active].pc = "put2"
    /\ peers.ctx[3 - peers.active].file = "README.md"
    /\ Cardinality(DOMAIN world) = 2

(***************************************************************************)
(* C12                                                                     *)
(***************************************************************************)
\* push_file for LICENSE ended otherwise than with success: it returned
\* (False, None) or an exception left it.
LicensePushFailed == steps.license \in {"fail", "raised"}

\* C12: a LICENSE push that ends with anything but success changes nothing:
\* the hosting call is the next call made, and the handler returns status
\* "success" with the repo, pages_url and commit of lines 148-156.
C12_LicenseFailureIgnored ==
    LicensePushFailed =>
        /\ pc = "pages" \/ HasRank(5)
        /\ pc = "done" =>
               /\ response.status = "success"
               /\ response.repo = RepoUrl
               /\ response.pages_url = PagesUrl
               /\ response.commit = PyOr(sha_html, sha_readme)

(***************************************************************************)
(* C13                                                                     *)
(***************************************************************************)
\* The request has a non-empty evaluation_url and the four required steps
\* succeeded.
NotifyDue ==
    /\ steps.secret = "ok"
    /\ steps.create = "ok"
    /\ steps.html = "ok"
    /\ steps.readme = "ok"
    /\ Truthy(data.evaluation_url)

\* Every notification attempt comes after the hosting call.
NotifyAfterPages ==
    \A i \in 1..Len(log) :
        log[i].op = "POST_eval" => \E j \in 1..(i - 1) : log[j].op = "POST_pages"

\* C13: a finished run has notified the evaluator exactly when the
\* evaluation_url is non-empty and the secret check, the creation and the
\* index.html and README.md pushes succeeded; the attempts come after the
\* hosting call and the response only after notify_evaluator has returned.
C13_NotifiedIffDue ==
    /\ pc = "done" => (NotifyLog # <<>> <=> NotifyDue)
    /\ NotifyAfterPages
    /\ pc = "notify" => response = NoResponse
    /\ NotifyLog # <<>> /\ pc = "done" => steps.notify \in {"ok", "fail"}

(***************************************************************************)
(* C14                                                                     *)
(***************************************************************************)
\* The waits of notify_evaluator, in order.
Waits == [i \in 1..Len(SelectSeq(log, LAMBDA e : e.op = "sleep")) |->
             SelectSeq(log, LAMBDA e : e.op = "sleep")[i].delay]

RECURSIVE Sum(_)
Sum(q) == IF q = <<>> THEN 0 ELSE q[1] + Sum(Tail(q))

\* An attempt is followed at once by a wait unless it is the last entry,
\* and the last entry is an attempt only if that attempt succeeded.
WaitFollowsEveryFailure ==
    \A i \in 1..Len(log) :
        /\ log[i].op = "POST_eval" /\ i < Len(log) => log[i + 1].op = "sleep"
        /\ log[i].op = "POST_eval" /\ i = Len(log) => EvalIn2xx
        /\ log[i].op = "sleep" => i > 1 /\ log[i - 1].op = "POST_eval"

\* C14: the wait follows every failed attempt, the last included: when all
\* 4 attempts failed the waits were 2, 4, 8 and 16 seconds, 30 in all, and
\* the handler's response came only after the wait of 16.
C14_TrailingWaitBeforeReturn ==
    /\ WaitFollowsEveryFailure
    /\ steps.notify = "fail" =>
           /\ Waits = <<2, 4, 8, 16>>
           /\ Sum(Waits) = 30
           /\ LastCall.op = "sleep" /\ LastCall.delay = 16
           /\ pc = "done"
    /\ response # NoResponse /\ NotifyLog # <<>> /\ ~EvalIn2xx =>
           LastCall.op = "sleep" /\ LastCall.delay = 16

\* Four failed attempts, the wait of 16 seconds, then the response.
C14_Witness ==
    /\ response.status = "success"
    /\ steps.notify = "fail"
    /\ Sum(Waits) = 30
    /\ LastCall.op = "sleep"

(***************************************************************************)
(* C15                                                                     *)
(***************************************************************************)
\* The bodies posted to the evaluator so far.
EvalBodies == {log[i].body : i \in {j \in 1..Len(log) : log[j].op = "POST_eval"}}

\* C15: in a run that notifies the evaluator, every attempt posts the same
\* payload; its task is the one in the name of the repository the run
\* created and its repo and pages_url name that repository; and the
\* response then returned has the payload's repo, pages_url and commit.
C15_PayloadMatchesResponse ==
    NotifyLog # <<>> =>
        /\ EvalBodies = {payload}
        /\ log[1].op = "POST_repos"
        /\ payload.task = log[1].repo[2]
        /\ payload.repo[3] = log[1].repo
        /\ payload.pages_url[4] = log[1].repo
        /\ pc = "done" =>
               /\ response.status = "success"
               /\ response.repo = payload.repo
               /\ response.pages_url = payload.pages_url
               /\ response.commit = payload.commit

\* The evaluator was reached at a retry, with the README.md push's sha as
\* the commit, and the handler has returned.
C15_Witness ==
    /\ pc = "done"
    /\ steps.notify = "ok"
    /\ Len(NotifyLog) >= 3
    /\ response.status = "success"
    /\ ~TruthyVal(sha_html)
    /\ TruthyVal(response.commit)

(***************************************************************************)
(* C16                                                                     *)
(***************************************************************************)
\* How many calls of kind op the run has made.
CountOp(op) == Cardinality({i \in 1..Len(log) : log[i].op = op})

\* The calls for file f: a PUT without sha; a GET only after that PUT was
\* answered 422; a second PUT, with the sha, only after the GET gave one.
FileCallsBounded(f) ==
    LET c == FileCalls(f)
    IN  /\ Len(c) <= 3
        /\ Len(c) >= 1 => c[1].op = "PUT" /\ c[1].sha = NoneVal
        /\ Len(c) >= 2 => c[1].res = "422" /\ c[2].op = "GET"
        /\ Len(c) = 3 =>
               /\ c[2].res = "2xx" /\ TruthyVal(c[2].got)
               /\ c[3].op = "PUT" /\ c[3].sha = c[2].got

CallsBounded ==
    /\ CountOp("POST_repos") <= 1
    /\ \A k \in 1..Len(Files) : FileCallsBounded(Files[k])
    /\ CountOp("POST_pages") <= 1
    /\ CountOp("POST_eval") <= 4

\* No call to the repository host raised instead of returning.
EveryCallReturned ==
    /\ steps.create # "raised"
    /\ steps.pages # "raised"
    /\ \A i \in 1..Len(log) : log[i].res # "exc"

\* C16: a run of the handler on a JSON object makes at most 1 creation
\* POST, per file at most 2 PUTs and 1 GET in the stated order, at most 1
\* hosting POST and at most 4 evaluator POSTs, enters no step again, and,
\* every outbound call having returned, ends with a response.
C16_BoundedCallsThenResponse ==
    data.kind = "dict" =>
        /\ CallsBounded
        /\ LogInStepOrder
        /\ pc = "done" /\ EveryCallReturned => response.status \in {"success", "error"}
====
